---- MODULE Spec2Model ----
(***************************************************************************)
(* ReliefChain backend: the in-memory max-heap priority queue             *)
(* (MaxHeapPriorityQueue, services/priorityQueue.service.js), the         *)
(* priority function (utils/priorityCalculator.js) and the request routes *)
(* that drive the queue (routes/request.routes.js, server.js).            *)
(*                                                                         *)
(* Scores are kept in hundredths of a point (the code rounds to two       *)
(* decimals), times in milliseconds, array positions 0-based as in the    *)
(* code (the TLA+ sequence `heap' holds position i at heap[i+1]).          *)
(***************************************************************************)
EXTENDS Integers, Sequences, FiniteSets, TLC

\* ------------------------------------------------------------------ bounds
NumIds == 3
MaxLen == 3
MaxTime == 1
MaxLoad == 2
MaxFill == 4
MaxRouteTime == 2
MaxInflight == 2
MaxRecords == 2
MaxPipe == 2
NumSyncIds == 2
MaxSyncLen == 2
MaxSyncPipe == 1
MaxSweepTime == 4
MaxMirrorLen == 2
MaxReadLen == 3

\* ------------------------------------------------------- program constants
W_VULNERABILITY == 5
W_MEDICAL_URGENCY == 10
MsPerMinute == 60000
W_WAITING_TIME_INV == 10
SweepIntervalMs == 300000
TickMs == SweepIntervalMs \div 2
HIGH_PRIORITY == 5000

Ids == 1..NumIds
FillIds == 1..MaxFill
VulnerabilityInputs == {4, 5}
UrgencyInputs == {5}
CreatedAtInputs(t) == {t}
ScoreInputs == 1..5
WaitInputs == {-60000, -1, 0, 2999, 3000, 3001, 15000, 51000, 600000}
ClockInputs == {600000, 1200000}

VARIABLES
    heap,        \* MaxHeapPriorityQueue.heap
    requestMap,  \* MaxHeapPriorityQueue.requestMap: id -> array position
    now,         \* the clock read by new Date(), in ms
    last,        \* the last call on the queue and what it returned
    hist,        \* entries inserted and extracted so far (fill-then-drain runs)
    store,       \* the ReliefRequest collection: id -> record
    inflight,    \* dequeue handlers waiting for findByIdAndUpdate
    emitted,     \* the events the last handler step passed to io.emit
    resp,        \* the last HTTP response sent
    lastSweep,   \* when the recalculation timer last fired (or was set)
    step,        \* the handler step taken last
    pipe,        \* commands sent to Redis and not yet answered, oldest first
    mirror,      \* the members of the sorted set the queue is mirrored to
    redisClient, \* config/redis.js: redisClient
    connectionFailed, \* config/redis.js: connectionFailed
    phase,       \* how far startServer has come
    mongo,       \* whether the store can be reached when the process starts
    socket       \* the connection of the Redis client and its reconnect attempts

queueVars == <<heap, requestMap, now, last, pipe>>
routeVars == <<store, inflight, emitted, resp, lastSweep, step>>
envVars == <<mirror, redisClient, connectionFailed, phase, mongo, socket>>
vars == <<heap, requestMap, now, last, hist, store, inflight, emitted, resp,
          lastSweep, step, pipe, mirror, redisClient, connectionFailed, phase,
          mongo, socket>>

\* ------------------------------------------------------------- JS values
Undefined == [kind |-> "undefined"]
EmptySlot == [kind |-> "empty"]
Null == [kind |-> "null"]

IsEntry(x) == x.kind = "entry"

Entry(id, v, u, c, p) ==
    [kind |-> "entry", _id |-> id, vulnerabilityScore |-> v,
     medicalUrgencyScore |-> u, createdAt |-> c, priorityScore |-> p]

\* heap[i] read: a missing index or an empty slot reads as undefined
Get(h, i) ==
    IF i >= 0 /\ i < Len(h) /\ IsEntry(h[i + 1]) THEN h[i + 1] ELSE Undefined

\* heap[i] = x: a write past the end grows the array, leaving empty slots;
\* a write at -1 sets a non-index property and leaves the elements alone
Put(h, i, x) ==
    IF i < 0 THEN h
    ELSE IF i < Len(h) THEN [h EXCEPT ![i + 1] = x]
    ELSE h \o [k \in 1..(i - Len(h)) |-> EmptySlot] \o <<x>>

Pop(h) == IF Len(h) = 0 THEN h ELSE SubSeq(h, 1, Len(h) - 1)

MapSet(m, k, v) == [x \in (DOMAIN m) \cup {k} |-> IF x = k THEN v ELSE m[x]]

MapDelete(m, k) == [x \in (DOMAIN m) \ {k} |-> m[x]]

\* --------------------------------------------------------- priority function
Max0(x) == IF x < 0 THEN 0 ELSE x

\* <<5v + 10u, waiting ms>> at which the double product priorityScore * 100
\* falls just below the exact k + 1/2 and Math.round returns k: the results
\* of the IEEE-754 evaluation of the source expression at the exact halves
\* among WaitInputs (at every other wait the double result is the exact one)
HalfRoundsDown ==
    {<<20, 15000>>, <<65, 51000>>, <<70, 51000>>, <<75, 51000>>}

\* Math.round(priorityScore * 100) / 100 with priorityScore =
\* 5v + 10u + 0.1 * max(0, ms / 60000), in hundredths: the wait term is
\* 100 * ms / 600000 rounded to the nearest integer, an exact half upward
\* unless the double product falls below it
calculatePriority_NoClamp(v, u, createdAt, t) ==
    LET waitingTimeMs == t - createdAt
        den == MsPerMinute * W_WAITING_TIME_INV
        base == v * W_VULNERABILITY + u * W_MEDICAL_URGENCY
    IN base * 100 + ((2 * 100 * waitingTimeMs + den) \div (2 * den))

calculatePriority_WaitSubtracted(v, u, createdAt, t) ==
    LET waitingTimeMs == Max0(t - createdAt)
        den == MsPerMinute * W_WAITING_TIME_INV
        base == v * W_VULNERABILITY + u * W_MEDICAL_URGENCY
    IN base * 100 - ((2 * 100 * waitingTimeMs + den) \div (2 * den))

calculatePriority(v, u, createdAt, t) ==
    LET waitingTimeMs == Max0(t - createdAt)
        den == MsPerMinute * W_WAITING_TIME_INV
        base == v * W_VULNERABILITY + u * W_MEDICAL_URGENCY
    IN base * 100
         + (IF <<base, waitingTimeMs>> \in HalfRoundsDown
            THEN (100 * waitingTimeMs) \div den
            ELSE (2 * 100 * waitingTimeMs + den) \div (2 * den))

\* ----------------------------------------------------------- heap helpers
getParentIndex(index) == (index - 1) \div 2
getLeftChildIndex(index) == 2 * index + 1
getRightChildIndex_SameAsLeft(index) == 2 * index + 1
getRightChildIndex(index) == 2 * index + 2
hasParent(index) == getParentIndex(index) >= 0
hasLeftChild(h, index) == getLeftChildIndex(index) < Len(h)
hasRightChild(h, index) == getRightChildIndex(index) < Len(h)

\* s is the object during a call: [heap, requestMap, threw]
swap(s, index1, index2) ==
    LET temp == Get(s.heap, index1)
        h1 == Put(s.heap, index1, Get(s.heap, index2))
    IN [s EXCEPT !.heap = Put(h1, index2, temp)]

updateMapIndices(s, index1, index2) ==
    LET m1 == IF IsEntry(Get(s.heap, index1))
              THEN MapSet(s.requestMap, Get(s.heap, index1)._id, index1)
              ELSE s.requestMap
        m2 == IF IsEntry(Get(s.heap, index2))
              THEN MapSet(m1, Get(s.heap, index2)._id, index2)
              ELSE m1
    IN [s EXCEPT !.requestMap = m2]

Throw(s) == [s EXCEPT !.threw = TRUE]

RECURSIVE bubbleUp_PastTies(_, _)
bubbleUp_PastTies(s, index) ==
    IF s.threw \/ ~hasParent(index) THEN s
    ELSE LET parentIndex == getParentIndex(index)
             p == Get(s.heap, parentIndex)
             c == Get(s.heap, index)
         IN IF ~IsEntry(p) \/ ~IsEntry(c) THEN Throw(s)
            ELSE IF p.priorityScore <= c.priorityScore
                 THEN bubbleUp_PastTies(updateMapIndices(swap(s, parentIndex, index),
                                                parentIndex, index),
                               parentIndex)
                 ELSE s

RECURSIVE bubbleUp(_, _)
bubbleUp(s, index) ==
    IF s.threw \/ ~hasParent(index) THEN s
    ELSE LET parentIndex == getParentIndex(index)
             p == Get(s.heap, parentIndex)
             c == Get(s.heap, index)
         IN IF ~IsEntry(p) \/ ~IsEntry(c) THEN Throw(s)
            ELSE IF p.priorityScore < c.priorityScore
                 THEN bubbleUp(updateMapIndices(swap(s, parentIndex, index),
                                                parentIndex, index),
                               parentIndex)
                 ELSE s

\* sinkDown that also swaps a parent with a child of equal score
RECURSIVE sinkDown_SwapTies(_, _)
sinkDown_SwapTies(s, index) ==
    IF s.threw \/ ~hasLeftChild(s.heap, index) THEN s
    ELSE LET l == Get(s.heap, getLeftChildIndex(index))
             r == Get(s.heap, getRightChildIndex(index))
             e == Get(s.heap, index)
             hasR == hasRightChild(s.heap, index)
         IN IF (hasR /\ (~IsEntry(r) \/ ~IsEntry(l))) \/ ~IsEntry(e) \/ ~IsEntry(l)
            THEN Throw(s)
            ELSE LET largerChildIndex ==
                         IF hasR /\ r.priorityScore > l.priorityScore
                         THEN getRightChildIndex(index)
                         ELSE getLeftChildIndex(index)
                 IN IF e.priorityScore > Get(s.heap, largerChildIndex).priorityScore
                    THEN s
                    ELSE sinkDown_SwapTies(
                             updateMapIndices(swap(s, index, largerChildIndex),
                                              index, largerChildIndex),
                             largerChildIndex)

RECURSIVE sinkDown(_, _)
sinkDown(s, index) ==
    IF s.threw \/ ~hasLeftChild(s.heap, index) THEN s
    ELSE LET l == Get(s.heap, getLeftChildIndex(index))
             r == Get(s.heap, getRightChildIndex(index))
             e == Get(s.heap, index)
             hasR == hasRightChild(s.heap, index)
         IN IF (hasR /\ (~IsEntry(r) \/ ~IsEntry(l))) \/ ~IsEntry(e) \/ ~IsEntry(l)
            THEN Throw(s)
            ELSE LET largerChildIndex ==
                         IF hasR /\ r.priorityScore > l.priorityScore
                         THEN getRightChildIndex(index)
                         ELSE getLeftChildIndex(index)
                 IN IF e.priorityScore >= Get(s.heap, largerChildIndex).priorityScore
                    THEN s
                    ELSE sinkDown(updateMapIndices(swap(s, index, largerChildIndex),
                                                   index, largerChildIndex),
                                  largerChildIndex)

\* the object after a call, with what the call returned
Outcome(s, ret, synced) ==
    [heap |-> s.heap, requestMap |-> s.requestMap, threw |-> s.threw,
     ret |-> IF s.threw THEN Undefined ELSE ret,
     synced |-> synced /\ ~s.threw]

Obj(h, m) == [heap |-> h, requestMap |-> m, threw |-> FALSE]

\* ---------------------------------------------------------------- insert
insert_NoBubbleUp(h, m, request, t) ==
    LET scored == [request EXCEPT !.priorityScore =
                       calculatePriority(request.vulnerabilityScore,
                                         request.medicalUrgencyScore,
                                         request.createdAt, t)]
        h1 == Append(h, scored)
    IN Outcome(Obj(h1, MapSet(m, scored._id, Len(h1) - 1)), scored, TRUE)

insert(h, m, request, t) ==
    LET scored == [request EXCEPT !.priorityScore =
                       calculatePriority(request.vulnerabilityScore,
                                         request.medicalUrgencyScore,
                                         request.createdAt, t)]
        h1 == Append(h, scored)
        s1 == Obj(h1, MapSet(m, scored._id, Len(h1) - 1))
        s2 == bubbleUp(s1, Len(h1) - 1)
    IN Outcome(s2, scored, TRUE)

\* ------------------------------------------------------------ extractMax
extractMax(h, m) ==
    IF Len(h) = 0 THEN Outcome(Obj(h, m), Null, FALSE)
    ELSE IF Len(h) = 1
    THEN LET max == Get(h, 0)
             s1 == Obj(Pop(h), m)
         IN IF ~IsEntry(max) THEN Outcome(Throw(s1), Null, FALSE)
            ELSE Outcome([s1 EXCEPT !.requestMap = MapDelete(m, max._id)],
                         max, TRUE)
    ELSE LET max == Get(h, 0)
             h1 == Put(Pop(h), 0, Get(h, Len(h) - 1))
             s1 == Obj(h1, m)
         IN IF ~IsEntry(max) THEN Outcome(Throw(s1), Null, FALSE)
            ELSE LET s2 == [s1 EXCEPT !.requestMap = MapDelete(m, max._id)]
                 IN IF ~IsEntry(Get(h1, 0)) THEN Outcome(Throw(s2), Null, FALSE)
                    ELSE LET s3 == [s2 EXCEPT !.requestMap =
                                        MapSet(s2.requestMap, Get(h1, 0)._id, 0)]
                         IN Outcome(sinkDown(s3, 0), max, TRUE)

\* ------------------------------------------------------------- buildHeap
RECURSIVE sinkDownFrom(_, _)
sinkDownFrom(s, i) ==
    IF i < 0 \/ s.threw THEN s ELSE sinkDownFrom(sinkDown(s, i), i - 1)

\* heap.forEach((request, index) => requestMap.set(request._id, index)):
\* forEach skips empty slots and visits slots that hold undefined
RECURSIVE setAllIndices(_, _)
setAllIndices(s, i) ==
    IF i >= Len(s.heap) \/ s.threw THEN s
    ELSE IF s.heap[i + 1] = EmptySlot THEN setAllIndices(s, i + 1)
    ELSE IF ~IsEntry(s.heap[i + 1]) THEN Throw(s)
    ELSE setAllIndices([s EXCEPT !.requestMap =
                            MapSet(s.requestMap, s.heap[i + 1]._id, i)], i + 1)

buildHeap(s) == setAllIndices(sinkDownFrom(s, (Len(s.heap) \div 2) - 1), 0)

\* ----------------------------------------------- recalculateAllPriorities
RECURSIVE rescoreFrom(_, _, _)
rescoreFrom(s, i, t) ==
    IF i >= Len(s.heap) \/ s.threw THEN s
    ELSE LET e == Get(s.heap, i)
         IN IF ~IsEntry(e) THEN Throw(s)
            ELSE rescoreFrom([s EXCEPT !.heap[i + 1].priorityScore =
                                  calculatePriority(e.vulnerabilityScore,
                                                    e.medicalUrgencyScore,
                                                    e.createdAt, t)],
                             i + 1, t)

recalculateAllPrioritiesObj(s, t) == buildHeap(rescoreFrom(s, 0, t))

recalculateAllPriorities(h, m, t) ==
    Outcome(recalculateAllPrioritiesObj(Obj(h, m), t), Undefined, FALSE)

\* ---------------------------------------------------------------- getAll
\* [...heap].sort((a, b) => b.priorityScore - a.priorityScore): a stable
\* sort, highest score first
RECURSIVE sortInsert(_, _)
sortInsert(sorted, x) ==
    IF sorted = <<>> THEN <<x>>
    ELSE IF Head(sorted).priorityScore >= x.priorityScore
         THEN <<Head(sorted)>> \o sortInsert(Tail(sorted), x)
         ELSE <<x>> \o sorted

RECURSIVE sortDescending(_, _)
sortDescending(h, n) ==
    IF n = 0 THEN <<>> ELSE sortInsert(sortDescending(h, n - 1), h[n])

ListOf(items) == [kind |-> "list", items |-> items]

getAll_SortsInPlace(h, m, t) ==
    LET s == recalculateAllPrioritiesObj(Obj(h, m), t)
        sorted == IF s.threw THEN s.heap ELSE sortDescending(s.heap, Len(s.heap))
    IN Outcome([s EXCEPT !.heap = sorted],
               IF s.threw THEN Undefined ELSE ListOf(sorted), FALSE)

getAll(h, m, t) ==
    LET s == recalculateAllPrioritiesObj(Obj(h, m), t)
    IN Outcome(s, IF s.threw THEN Undefined
                  ELSE ListOf(sortDescending(s.heap, Len(s.heap))), FALSE)

\* ------------------------------------------------------------ removeById
removeById(h, m, requestId) ==
    IF requestId \notin DOMAIN m THEN Outcome(Obj(h, m), Null, FALSE)
    ELSE LET index == m[requestId]
             request == Get(h, index)
             lastIndex == Len(h) - 1
             s1 == IF index # lastIndex THEN swap(Obj(h, m), index, lastIndex)
                   ELSE Obj(h, m)
             s2 == [s1 EXCEPT !.heap = Pop(s1.heap),
                              !.requestMap = MapDelete(m, requestId)]
             s3 == IF index < Len(s2.heap)
                   THEN bubbleUp(sinkDown(s2, index), index)
                   ELSE s2
         IN Outcome(s3, request, TRUE)

\* -------------------------------------------------------- updatePriority
Merge(e, changes) ==
    [f \in DOMAIN e |-> IF f \in DOMAIN changes THEN changes[f] ELSE e[f]]

updatePriority(h, m, requestId, newRequest, t) ==
    IF requestId \notin DOMAIN m THEN Outcome(Obj(h, m), Null, FALSE)
    ELSE LET index == m[requestId]
             old == Get(h, index)
         IN IF ~IsEntry(old) THEN Outcome(Throw(Obj(h, m)), Null, FALSE)
            ELSE LET merged == Merge(old, newRequest)
                     scored == [merged EXCEPT !.priorityScore =
                                    calculatePriority(merged.vulnerabilityScore,
                                                      merged.medicalUrgencyScore,
                                                      merged.createdAt, t)]
                     s1 == Obj(Put(h, index, scored), m)
                     s2 == IF scored.priorityScore > old.priorityScore
                           THEN bubbleUp(s1, index)
                           ELSE sinkDown(s1, index)
                 IN Outcome(s2, Get(s2.heap, index), TRUE)

\* --------------------------------------------------------- loadFromArray
loadFromArray(m, requests, t) ==
    LET h1 == [i \in 1..Len(requests) |->
                 [requests[i] EXCEPT !.priorityScore =
                      calculatePriority(requests[i].vulnerabilityScore,
                                        requests[i].medicalUrgencyScore,
                                        requests[i].createdAt, t)]]
    IN Outcome(buildHeap(Obj(h1, m)), Undefined, FALSE)

peek_NoLengthCheck(h) == Get(h, 0)

peek(h) == IF Len(h) > 0 THEN Get(h, 0) ELSE Null

size(h) == Len(h)

isEmpty(h) == Len(h) = 0

\* ------------------------------------------- config/redis.js, syncToRedis
Client == [kind |-> "client"]

\* `last' holding what is not a call on the queue
Noted(op, x) ==
    [op |-> op, id |-> 0, ret |-> x, threw |-> FALSE, synced |-> FALSE]

\* no client has been created
NoSocket == [status |-> "none", retries |-> 0, retryIn |-> 0]

getRedisClient(client, failed) == IF failed THEN Null ELSE client

Del == [cmd |-> "del"]

ZAdd(items) == [cmd |-> "zAdd", items |-> items]

\* syncToRedis up to its first await: without a client it returns, with one
\* it sends DEL and waits for the answer
\* (were the call awaited, it would return with every command answered)
syncToRedis_Awaited(redis, p) == IF redis = Null THEN p ELSE <<>>

syncToRedis(redis, p) == IF redis = Null THEN p ELSE Append(p, Del)

HeapIds(h) == {h[i]._id : i \in {j \in 1..Len(h) : IsEntry(h[j])}}

NoHist == [inserted |-> <<>>, extracted |-> <<>>]

Init ==
    /\ heap = <<>>
    /\ requestMap = [x \in {} |-> 0]
    /\ now = 0
    /\ last = [op |-> "new", id |-> 0, ret |-> Null, threw |-> FALSE, synced |-> FALSE]
    /\ hist = NoHist
    /\ store = [x \in {} |-> 0]
    /\ inflight = {}
    /\ emitted = <<>>
    /\ resp = [route |-> "none", status |-> 0]
    /\ lastSweep = 0
    /\ step = "start"
    /\ pipe = <<>>
    /\ mirror = {}
    /\ redisClient = Null
    /\ connectionFailed = FALSE
    /\ phase = "listening"
    /\ mongo = "up"
    /\ socket = NoSocket

\* a call on the queue object: o is what the method leaves and returns; a
\* method that got as far as this.syncToRedis() has started a sync
Call(o, op, id) ==
    /\ heap' = o.heap
    /\ requestMap' = o.requestMap
    /\ last' = [op |-> op, id |-> id, ret |-> o.ret, threw |-> o.threw, synced |-> o.synced]
    /\ now' = now
    /\ pipe' = IF o.synced
               THEN syncToRedis(getRedisClient(redisClient, connectionFailed), pipe)
               ELSE pipe

\* ids are opaque: a new entry takes the smallest id no entry of the array has
FreshId(ids, h) ==
    CHOOSE id \in ids \ HeapIds(h) : \A o \in ids \ HeapIds(h) : id <= o

InsertCall(ids, maxLen) ==
    /\ Len(heap) < maxLen
    /\ ids \ HeapIds(heap) # {}
    /\ \E v \in VulnerabilityInputs, u \in UrgencyInputs, c \in CreatedAtInputs(now) :
         Call(insert(heap, requestMap, Entry(FreshId(ids, heap), v, u, c, 0), now),
              "insert", FreshId(ids, heap))

ExtractMaxCall == Call(extractMax(heap, requestMap), "extractMax", 0)

PeekCall ==
    /\ last' = [op |-> "peek", id |-> 0, ret |-> peek(heap), threw |-> FALSE,
                synced |-> FALSE]
    /\ UNCHANGED <<heap, requestMap, now, pipe>>

ChangeInputs ==
    {<<>>} \cup {[vulnerabilityScore |-> v] : v \in VulnerabilityInputs}

UpdatePriorityCall(ids) ==
    \E id \in ids, ch \in ChangeInputs :
        Call(updatePriority(heap, requestMap, id, ch, now), "updatePriority", id)

TickClock(maxTime) ==
    /\ now < maxTime * TickMs
    /\ now' = now + TickMs
    /\ UNCHANGED <<heap, requestMap, last, pipe>>

\* ------------------------------------------------- the queue object (Spec)
Insert == InsertCall(Ids, MaxLen) /\ UNCHANGED <<envVars, hist, routeVars>>

ExtractMax == ExtractMaxCall /\ UNCHANGED <<envVars, hist, routeVars>>

Peek == PeekCall /\ UNCHANGED <<envVars, hist, routeVars>>

RemoveById ==
    /\ \E id \in Ids : Call(removeById(heap, requestMap, id), "removeById", id)
    /\ UNCHANGED <<envVars, hist, routeVars>>

UpdatePriority == UpdatePriorityCall(Ids) /\ UNCHANGED <<envVars, hist, routeVars>>

RecalculateAllPriorities ==
    /\ Call(recalculateAllPriorities(heap, requestMap, now),
            "recalculateAllPriorities", 0)
    /\ UNCHANGED <<envVars, hist, routeVars>>

GetAll ==
    /\ Call(getAll(heap, requestMap, now), "getAll", 0)
    /\ UNCHANGED <<envVars, hist, routeVars>>

\* the records a recovery finds: ids 1..n in store order
LoadInputs(t) ==
    UNION {[1..n -> {Entry(0, v, u, t, 0) :
                       v \in VulnerabilityInputs, u \in UrgencyInputs}] :
             n \in 1..MaxLoad}

LoadFromArray ==
    /\ \E requests \in LoadInputs(now) :
        Call(loadFromArray(requestMap,
                           [i \in 1..Len(requests) |->
                              [requests[i] EXCEPT !._id = i]], now),
             "loadFromArray", 0)
    /\ UNCHANGED <<envVars, hist, routeVars>>

Tick == TickClock(MaxTime) /\ UNCHANGED <<envVars, hist, routeVars>>

\* insert, extractMax, removeById, updatePriority (and peek) on one object
SpecQueueOps == Init /\ [][Insert \/ ExtractMax \/ Peek \/ RemoveById \/ UpdatePriority \/
          Tick]_vars

\* every public synchronous method of the object
Next ==
    \/ Insert
    \/ ExtractMax
    \/ Peek
    \/ RemoveById
    \/ UpdatePriority
    \/ RecalculateAllPriorities
    \/ GetAll
    \/ LoadFromArray
    \/ Tick

Spec == Init /\ [][Next]_vars

\* -------------------------- larger heaps: inserts only, and fill-then-drain
FillInsert ==
    /\ hist.extracted = <<>>
    /\ InsertCall(FillIds, MaxFill)
    /\ hist' = [hist EXCEPT !.inserted = Append(@, last'.ret)]
    /\ UNCHANGED <<envVars, routeVars>>

SpecInsert == Init /\ [][FillInsert \/ Peek \/ Tick]_vars

DrainExtractMax ==
    /\ Len(hist.extracted) < Len(hist.inserted)
    /\ ExtractMaxCall
    /\ hist' = [hist EXCEPT !.extracted = Append(@, last'.ret)]
    /\ UNCHANGED <<envVars, routeVars>>

SpecDrain == Init /\ [][FillInsert \/ DrainExtractMax \/ Tick]_vars

\* ------------------ larger heaps under every method that keeps the index
HeapInsert == InsertCall(FillIds, MaxFill) /\ UNCHANGED <<envVars, hist, routeVars>>

HeapUpdatePriority == UpdatePriorityCall(FillIds) /\ UNCHANGED <<envVars, hist, routeVars>>

SpecHeap == Init /\ [][HeapInsert \/ ExtractMax \/ Peek \/ HeapUpdatePriority \/
          RecalculateAllPriorities \/ GetAll \/ Tick]_vars

\* ------------------------------------------------ routes/request.routes.js
Respond(route, status) == [route |-> route, status |-> status]

StoreIds == DOMAIN store

\* the store assigns each new record an id of its own
NewStoreId == Cardinality(StoreIds) + 1

Record(e, status) ==
    [status |-> status, vulnerabilityScore |-> e.vulnerabilityScore,
     medicalUrgencyScore |-> e.medicalUrgencyScore, createdAt |-> e.createdAt]

\* utils/priorityCalculator.js: the score tables
VULNERABILITY_SCORES ==
    [pregnant |-> 5, elderly |-> 4, child |-> 4, disabled |-> 3, adult |-> 1]

MEDICAL_URGENCY_SCORES ==
    [life_saving_medicine |-> 5, serious_injury |-> 4, regular_medicine |-> 3,
     food_water |-> 2, shelter |-> 1]

\* VULNERABILITY_SCORES[category.toLowerCase()] || 1
getVulnerabilityScore(category) ==
    IF category \in DOMAIN VULNERABILITY_SCORES
    THEN VULNERABILITY_SCORES[category] ELSE 1

getMedicalUrgencyScore(aidType) ==
    IF aidType \in DOMAIN MEDICAL_URGENCY_SCORES
    THEN MEDICAL_URGENCY_SCORES[aidType] ELSE 1

\* if (priorityScore >= 50)
isHighPriority_Above(priorityScore) == priorityScore > HIGH_PRIORITY

isHighPriority(priorityScore) == priorityScore >= HIGH_PRIORITY

Event(event, id, queueSize) ==
    [event |-> event, request |-> id, queueSize |-> queueSize]

\* POST /api/request from the scores of the validated body on: save, insert,
\* emit, respond
SubmitScored(v, u) ==
    LET priorityScore == calculatePriority(v, u, now, now)
        request == Entry(NewStoreId, v, u, now, priorityScore)
        o == insert(heap, requestMap, request, now)
    IN /\ Call(o, "insert", NewStoreId)
       /\ store' = MapSet(store, NewStoreId, Record(request, "PENDING"))
       /\ emitted' =
            IF o.threw THEN <<>>
            ELSE <<Event("newRequest", NewStoreId, size(o.heap))>>
                 \o (IF isHighPriority(priorityScore)
                     THEN <<Event("highPriorityAlert", NewStoreId, 0)>>
                     ELSE <<>>)
       /\ resp' = Respond("submit", IF o.threw THEN 500 ELSE 201)

\* POST /api/request with valid fields
Submit ==
    /\ NewStoreId \in Ids
    /\ Len(heap) < MaxLen
    /\ \E v \in VulnerabilityInputs, u \in UrgencyInputs : SubmitScored(v, u)
    /\ step' = "Submit"
    /\ UNCHANGED <<envVars, hist, inflight, lastSweep>>

\* GET /api/queue
GetQueue ==
    /\ LET o == getAll(heap, requestMap, now)
       IN /\ Call(o, "getAll", 0)
          /\ resp' = Respond("queue", IF o.threw THEN 500 ELSE 200)
    /\ emitted' = <<>>
    /\ step' = "GetQueue"
    /\ UNCHANGED <<envVars, hist, store, inflight, lastSweep>>

\* POST /api/dequeue up to the await of findByIdAndUpdate
DequeueBegin ==
    /\ Cardinality(inflight) < MaxInflight
    /\ IF isEmpty(heap)
       THEN /\ resp' = Respond("dequeue", 404)
            /\ UNCHANGED <<queueVars, inflight>>
       ELSE LET o == extractMax(heap, requestMap)
            IN /\ Call(o, "extractMax", 0)
               /\ IF o.threw
                  THEN resp' = Respond("dequeue", 500) /\ inflight' = inflight
                  ELSE IF ~IsEntry(o.ret)
                  THEN resp' = Respond("dequeue", 404) /\ inflight' = inflight
                  ELSE resp' = resp /\ inflight' = inflight \cup {o.ret}
    /\ emitted' = <<>>
    /\ step' = "DequeueBegin"
    /\ UNCHANGED <<envVars, hist, store, lastSweep>>

\* POST /api/dequeue from the result of findByIdAndUpdate on
DequeueEnd ==
    /\ \E highestPriority \in inflight, db \in {"ok", "error"} :
         /\ inflight' = inflight \ {highestPriority}
         /\ IF db = "error"
            THEN /\ resp' = Respond("dequeue", 500)
                 /\ emitted' = <<>>
                 /\ UNCHANGED <<queueVars, store>>
            ELSE IF highestPriority._id \notin StoreIds
            THEN /\ resp' = Respond("dequeue", 404)
                 /\ emitted' = <<>>
                 /\ UNCHANGED <<queueVars, store>>
            ELSE LET o == getAll(heap, requestMap, now)
                 IN /\ store' = [store EXCEPT ![highestPriority._id].status =
                                     "IN_TRANSIT"]
                    /\ Call(o, "getAll", 0)
                    /\ emitted' =
                         <<[event |-> "requestDequeued", queueSize |-> size(heap)]>>
                         \o (IF o.threw THEN <<>>
                             ELSE <<[event |-> "queueUpdated",
                                     queueSize |-> size(o.heap)]>>)
                    /\ resp' = Respond("dequeue", IF o.threw THEN 500 ELSE 200)
    /\ step' = "DequeueEnd"
    /\ UNCHANGED <<envVars, hist, lastSweep>>

\* server.js: the setInterval callback
\* (setTimeout in place of setInterval would fire once)
SweepDue_Once == lastSweep = 0 /\ now - lastSweep >= SweepIntervalMs

SweepDue == now - lastSweep >= SweepIntervalMs

Sweep ==
    /\ SweepDue
    /\ LET r == recalculateAllPrioritiesObj(Obj(heap, requestMap), now)
           o == IF r.threw THEN Outcome(r, Undefined, FALSE)
                ELSE getAll(r.heap, r.requestMap, now)
       IN /\ Call(o, IF r.threw THEN "recalculateAllPriorities" ELSE "getAll", 0)
          /\ emitted' = IF o.threw THEN <<>>
                        ELSE <<[event |-> "queueUpdated", queueSize |-> size(o.heap)]>>
    /\ lastSweep' = lastSweep + SweepIntervalMs
    /\ step' = "Sweep"
    /\ UNCHANGED <<envVars, hist, store, inflight, resp>>

\* time passes; a due timer callback runs before the clock moves on
RouteTick ==
    /\ ~SweepDue
    /\ TickClock(MaxRouteTime)
    /\ UNCHANGED <<envVars, hist, routeVars>>

SpecRoutes == Init /\ [][Submit \/ GetQueue \/ DequeueBegin \/ DequeueEnd \/ Sweep \/
          RouteTick]_vars

\* the routes together with direct extractMax and peek calls
DirectExtractMax ==
    /\ ExtractMaxCall
    /\ step' = "extractMax"
    /\ UNCHANGED <<envVars, hist, store, inflight, emitted, resp, lastSweep>>

DirectPeek ==
    /\ PeekCall
    /\ step' = "peek"
    /\ UNCHANGED <<envVars, hist, store, inflight, emitted, resp, lastSweep>>

SpecDispatch == Init /\ [][Submit \/ DequeueBegin \/ DequeueEnd \/ DirectExtractMax \/
          DirectPeek \/ RouteTick]_vars


\* PUT /api/update-status/:id: the store applies the update and the handler
\* goes on from the await (before it the handler only validates the body)
validStatuses == {"PENDING", "IN_TRANSIT", "DELIVERED"}

\* updatedRequest.toObject(): the stored fields of the record
ToObject(id, rec) ==
    Entry(id, rec.vulnerabilityScore, rec.medicalUrgencyScore, rec.createdAt, 0)

UpdateStatus ==
    /\ \E id \in Ids, status \in {"PENDING", "IN_TRANSIT", "DELIVERED", "CANCELLED"} :
         IF status \notin validStatuses
         THEN /\ resp' = Respond("update-status", 400)
              /\ emitted' = <<>>
              /\ UNCHANGED <<queueVars, store>>
         ELSE IF id \notin StoreIds
         THEN /\ resp' = Respond("update-status", 404)
              /\ emitted' = <<>>
              /\ UNCHANGED <<queueVars, store>>
         ELSE /\ store' = [store EXCEPT ![id].status = status]
              /\ IF status = "PENDING"
                 THEN /\ Len(heap) < MaxLen
                      /\ LET o == insert(heap, requestMap,
                                         ToObject(id, store[id]), now)
                         IN /\ Call(o, "insert", id)
                            /\ emitted' =
                                 IF o.threw THEN <<>>
                                 ELSE <<[event |-> "statusUpdated", queueSize |-> 0]>>
                            /\ resp' = Respond("update-status",
                                               IF o.threw THEN 500 ELSE 200)
                 ELSE /\ emitted' = <<[event |-> "statusUpdated", queueSize |-> 0]>>
                      /\ resp' = Respond("update-status", 200)
                      /\ UNCHANGED queueVars
    /\ step' = "UpdateStatus"
    /\ UNCHANGED <<envVars, hist, inflight, lastSweep>>

\* submissions while the store holds fewer than MaxRecords records
StatusSubmit == Cardinality(StoreIds) < MaxRecords /\ Submit

SpecStatus == Init /\ [][StatusSubmit \/ DequeueBegin \/ DequeueEnd \/ UpdateStatus]_vars

\* ------------------------------------ POST /api/request with its request body
\* the fields of req.body the handler checks ("" stands for a missing field)
BodyInputs ==
    [name : {"Asha", ""},
     district : {"Pune", ""},
     aidType : {"life_saving_medicine", "regular_medicine", "shelter", "bogus"},
     vulnerabilityCategory : {"elderly", "disabled", "adult", "bogus"}]

\* the three checks that answer 400 before anything is computed or saved
validBody(body) ==
    /\ body.name # "" /\ body.district # ""
    /\ body.aidType # "" /\ body.vulnerabilityCategory # ""
    /\ body.aidType \in DOMAIN MEDICAL_URGENCY_SCORES
    /\ body.vulnerabilityCategory \in DOMAIN VULNERABILITY_SCORES

PostRequest ==
    /\ NewStoreId \in Ids
    /\ Cardinality(StoreIds) < MaxRecords
    /\ Len(heap) < MaxLen
    /\ \E body \in BodyInputs, db \in {"ok", "error"} :
         IF ~validBody(body)
         THEN /\ resp' = Respond("submit", 400)
              /\ emitted' = <<>>
              /\ UNCHANGED <<queueVars, store>>
         ELSE IF db = "error"
         THEN /\ resp' = Respond("submit", 500)
              /\ emitted' = <<>>
              /\ UNCHANGED <<queueVars, store>>
         ELSE SubmitScored(getVulnerabilityScore(body.vulnerabilityCategory),
                           getMedicalUrgencyScore(body.aidType))
    /\ step' = "PostRequest"
    /\ UNCHANGED <<envVars, hist, inflight, lastSweep>>

SpecSubmit == Init /\ [][PostRequest \/ DequeueBegin \/ DequeueEnd]_vars

\* ------------------------------------------- the timer over several periods
SweepTick ==
    /\ ~SweepDue
    /\ TickClock(MaxSweepTime)
    /\ UNCHANGED <<envVars, hist, routeVars>>

\* the event loop runs the callback of a due timer: a Sweep step, told by
\* what it does to the timer
SweepFires == SweepDue /\ lastSweep' = lastSweep + SweepIntervalMs

\* time passes, and a timer callback that is due is run
SpecSweep ==
    /\ Init
    /\ [][StatusSubmit \/ DequeueBegin \/ DequeueEnd \/ Sweep \/ SweepTick]_vars
    /\ WF_vars(SweepTick)
    /\ WF_lastSweep(SweepFires)

\* ------------------------------------- server.js: startServer, the mirror
\* the records the store holds when the process starts
InitStart ==
    /\ heap = <<>>
    /\ requestMap = [x \in {} |-> 0]
    /\ now = 0
    /\ last = [op |-> "new", id |-> 0, ret |-> Null, threw |-> FALSE, synced |-> FALSE]
    /\ hist = NoHist
    /\ store \in {[x \in {} |-> 0]}
                \cup {(1 :> Record(Entry(1, v, u, 0, 0), "PENDING")) :
                        v \in VulnerabilityInputs, u \in UrgencyInputs}
    /\ inflight = {}
    /\ emitted = <<>>
    /\ resp = [route |-> "none", status |-> 0]
    /\ lastSweep = 0
    /\ step = "start"
    /\ pipe = <<>>
    /\ mirror = {}
    /\ redisClient = Null
    /\ connectionFailed = FALSE
    /\ phase = "start"
    /\ mongo \in {"up", "down"}
    /\ socket = NoSocket

\* config/db.js: mongoose.connect resolves, or rejects and the catch block
\* calls process.exit(1)
connectDB_LogOnly(m) == "db"

connectDB(m) == IF m = "up" THEN "db" ELSE "exited"

ConnectDB ==
    /\ phase = "start"
    /\ phase' = connectDB(mongo)
    /\ step' = "ConnectDB"
    /\ UNCHANGED <<queueVars, hist, store, inflight, emitted, resp, lastSweep,
                   mirror, redisClient, connectionFailed, mongo,
                   socket>>

\* config/redis.js connectRedis: connect() resolves, or rejects and the
\* catch block sets connectionFailed and drops the client
ConnectRedis ==
    /\ phase = "db"
    /\ \E ok \in BOOLEAN :
         /\ redisClient' = IF ok THEN Client ELSE Null
         /\ connectionFailed' = ~ok
    /\ phase' = "redis"
    /\ step' = "ConnectRedis"
    /\ UNCHANGED <<queueVars, hist, store, inflight, emitted, resp, lastSweep,
                   mirror, mongo,
                   socket>>

\* ReliefRequest.find({status: 'PENDING'}) in store order
RECURSIVE pendingFrom(_, _)
pendingFrom(st, id) ==
    IF id \notin DOMAIN st THEN <<>>
    ELSE (IF st[id].status = "PENDING" THEN <<ToObject(id, st[id])>> ELSE <<>>)
           \o pendingFrom(st, id + 1)

\* startServer from the result of find on: loadFromArray, setInterval, listen;
\* an exception reaches the catch block, which calls process.exit(1)
StartListening ==
    /\ phase = "redis"
    /\ LET pendingRequests == pendingFrom(store, 1)
           o == IF Len(pendingRequests) > 0
                THEN loadFromArray(requestMap, pendingRequests, now)
                ELSE Outcome(Obj(heap, requestMap), Undefined, FALSE)
       IN /\ IF Len(pendingRequests) > 0
             THEN Call(o, "loadFromArray", 0)
             ELSE UNCHANGED queueVars
          /\ phase' = IF o.threw THEN "exited" ELSE "listening"
    /\ lastSweep' = now
    /\ step' = "StartListening"
    /\ UNCHANGED <<hist, store, inflight, emitted, resp, mirror, redisClient,
                   connectionFailed, mongo,
                   socket>>

Serving == phase = "listening"

\* this.heap.map(...) in syncToRedis: reading a field of a slot that holds
\* undefined throws; map leaves empty slots empty
snapshotThrows(h) == \E i \in 1..Len(h) : h[i] = Undefined

\* for (const item of items): reading item.score on an empty slot throws
itemThrows(items) == items # <<>> /\ ~IsEntry(Head(items))

\* the next command of the loop, or none at its end or when it throws
sendNext(p, items) ==
    IF items = <<>> \/ itemThrows(items) THEN p ELSE Append(p, ZAdd(items))

\* the catch block of syncToRedis logs the error: the promise of the sync
\* resolves and the process goes on (a rejection nobody handles would reach
\* process.on('unhandledRejection') in server.js, which exits)
syncCatch_Unhandled(ph) == "exited"

syncCatch(ph) == ph

\* Redis answers the oldest command and the sync that sent it goes on
Reply ==
    /\ pipe # <<>>
    /\ phase # "exited"
    /\ LET c == Head(pipe)
           items == IF c.cmd = "del" THEN heap ELSE Tail(c.items)
           throws == IF c.cmd = "del" THEN snapshotThrows(heap)
                     ELSE itemThrows(items)
       IN /\ mirror' = IF c.cmd = "del" THEN {} ELSE mirror \cup {Head(c.items)}
          /\ pipe' = IF throws THEN Tail(pipe) ELSE sendNext(Tail(pipe), items)
          /\ phase' = IF throws \/ (c.cmd = "del" /\ itemThrows(items))
                      THEN syncCatch(phase) ELSE phase
    /\ step' = "Reply"
    /\ UNCHANGED <<heap, requestMap, now, last, hist, store, inflight, emitted,
                   resp, lastSweep, redisClient, connectionFailed, mongo,
                   socket>>

\* the oldest command is rejected: the catch block ends the sync
ReplyError ==
    /\ pipe # <<>>
    /\ phase # "exited"
    /\ pipe' = Tail(pipe)
    /\ phase' = syncCatch(phase)
    /\ step' = "ReplyError"
    /\ UNCHANGED <<heap, requestMap, now, last, hist, store, inflight, emitted,
                   resp, lastSweep, mirror, redisClient, connectionFailed, mongo,
                   socket>>

\* the client's 'error' and 'ready' events
RedisError ==
    /\ phase # "exited"
    /\ redisClient = Client
    /\ ~connectionFailed
    /\ connectionFailed' = TRUE
    /\ step' = "RedisError"
    /\ UNCHANGED <<queueVars, hist, store, inflight, emitted, resp, lastSweep,
                   mirror, redisClient, phase, mongo,
                   socket>>

RedisReady ==
    /\ phase # "exited"
    /\ redisClient = Client
    /\ connectionFailed
    /\ connectionFailed' = FALSE
    /\ step' = "RedisReady"
    /\ UNCHANGED <<queueVars, hist, store, inflight, emitted, resp, lastSweep,
                   mirror, redisClient, phase, mongo,
                   socket>>

\* the routes and the timer once the server listens
ServerSubmit ==
    /\ Serving
    /\ Cardinality(StoreIds) < MaxRecords
    /\ Len(pipe) < MaxPipe
    /\ Submit

ServerDequeueBegin == Serving /\ Len(pipe) < MaxPipe /\ DequeueBegin

ServerDequeueEnd == Serving /\ DequeueEnd

ServerGetQueue == Serving /\ GetQueue

ServerSweep == Serving /\ Sweep

ServerTick == Serving /\ RouteTick

SpecServer == InitStart /\ [][ConnectDB \/ ConnectRedis \/ StartListening \/ ServerSubmit \/
          ServerDequeueBegin \/ ServerDequeueEnd \/ ServerGetQueue \/
          ServerSweep \/ ServerTick \/ Reply]_vars

\* ------------------- the queue object with the mirror and its failures
\* the queue once startServer has run with nothing to recover: connectRedis
\* has left a client, or none after a failed connect
InitSync ==
    /\ heap = <<>>
    /\ requestMap = [x \in {} |-> 0]
    /\ now = 0
    /\ last = [op |-> "new", id |-> 0, ret |-> Null, threw |-> FALSE, synced |-> FALSE]
    /\ hist = NoHist
    /\ store = [x \in {} |-> 0]
    /\ inflight = {}
    /\ emitted = <<>>
    /\ resp = [route |-> "none", status |-> 0]
    /\ lastSweep = 0
    /\ step = "start"
    /\ pipe = <<>>
    /\ mirror = {}
    /\ \E ok \in BOOLEAN :
         /\ redisClient = IF ok THEN Client ELSE Null
         /\ connectionFailed = ~ok
    /\ phase = "listening"
    /\ mongo = "up"
    /\ socket = NoSocket

SyncIds == 1..NumSyncIds

SyncInsert ==
    /\ Len(pipe) < MaxSyncPipe
    /\ InsertCall(SyncIds, MaxSyncLen)
    /\ step' = "insert"
    /\ UNCHANGED <<envVars, hist, store, inflight, emitted, resp, lastSweep>>

SyncExtractMax == Len(pipe) < MaxSyncPipe /\ DirectExtractMax

SyncRemoveById ==
    /\ Len(pipe) < MaxSyncPipe
    /\ \E id \in SyncIds : Call(removeById(heap, requestMap, id), "removeById", id)
    /\ step' = "removeById"
    /\ UNCHANGED <<envVars, hist, store, inflight, emitted, resp, lastSweep>>

SyncUpdatePriority ==
    /\ Len(pipe) < MaxSyncPipe
    /\ UpdatePriorityCall(SyncIds)
    /\ step' = "updatePriority"
    /\ UNCHANGED <<envVars, hist, store, inflight, emitted, resp, lastSweep>>

SpecSync == InitSync /\ [][SyncInsert \/ SyncExtractMax \/ SyncRemoveById \/
          SyncUpdatePriority \/ Reply \/ ReplyError \/ RedisError \/
          RedisReady]_vars

\* ------------------------ config/redis.js: the client and its reconnects
\* socket.reconnectStrategy: the delay before the next attempt, or false
reconnectStrategy_OneMore(retries) ==
    IF retries > 3 THEN [connectionFailed |-> TRUE, ret |-> [kind |-> "boolean", value |-> FALSE]]
    ELSE [connectionFailed |-> FALSE,
          ret |-> [kind |-> "number",
                   value |-> IF retries * 500 < 2000 THEN retries * 500 ELSE 2000]]

reconnectStrategy(retries) ==
    IF retries > 2 THEN [connectionFailed |-> TRUE, ret |-> [kind |-> "boolean", value |-> FALSE]]
    ELSE [connectionFailed |-> FALSE,
          ret |-> [kind |-> "number",
                   value |-> IF retries * 500 < 2000 THEN retries * 500 ELSE 2000]]

\* connectRedis up to `await redisClient.connect()': with the failed mark
\* set it returns null, otherwise it creates a client, which starts its
\* first attempt
ConnectRedisCall ==
    /\ phase \in {"db", "listening"}
    /\ socket.status \in {"none", "closed"}
    /\ IF connectionFailed
       THEN /\ last' = Noted("connectRedis", Null)
            /\ phase' = IF phase = "db" THEN "redis" ELSE phase
            /\ UNCHANGED <<redisClient, socket>>
       ELSE /\ redisClient' = Client
            /\ socket' = [status |-> "connecting", retries |-> 0, retryIn |-> 0]
            /\ UNCHANGED <<last, phase>>
    /\ step' = "connectRedis"
    /\ UNCHANGED <<heap, requestMap, now, pipe, hist, store, inflight, emitted,
                   resp, lastSweep, mirror, connectionFailed, mongo>>

\* an attempt fails: the client asks reconnectStrategy. With a delay it
\* emits 'error' (the handler sets the failed mark) and waits; with false it
\* closes, and a connect() still awaited rejects into the catch block
AttemptFails ==
    /\ socket.status = "connecting"
    /\ LET r == reconnectStrategy(socket.retries)
       IN IF r.ret.kind # "number"
          THEN /\ socket' = [socket EXCEPT !.status = "closed", !.retryIn = 0]
               /\ connectionFailed' = (r.connectionFailed \/ phase = "db"
                                         \/ connectionFailed)
               /\ redisClient' = IF phase = "db" THEN Null ELSE redisClient
               /\ last' = IF phase = "db" THEN Noted("connectRedis", Null) ELSE last
               /\ phase' = IF phase = "db" THEN "redis" ELSE phase
          ELSE /\ socket' = [socket EXCEPT !.status = "waiting", !.retryIn = r.ret.value]
               /\ connectionFailed' = TRUE
               /\ UNCHANGED <<redisClient, last, phase>>
    /\ step' = "reconnectStrategy"
    /\ UNCHANGED <<heap, requestMap, now, pipe, hist, store, inflight, emitted,
                   resp, lastSweep, mirror, mongo>>

\* the delay is over: the next attempt starts
RetryTimer ==
    /\ socket.status = "waiting"
    /\ socket' = [status |-> "connecting", retries |-> socket.retries + 1,
                  retryIn |-> 0]
    /\ step' = "retry"
    /\ UNCHANGED <<queueVars, hist, store, inflight, emitted, resp, lastSweep,
                   mirror, redisClient, connectionFailed, phase, mongo>>

\* an attempt succeeds: 'connect' and 'ready' are emitted, and a connect()
\* still awaited resolves
AttemptSucceeds ==
    /\ socket.status = "connecting"
    /\ socket' = [status |-> "ready", retries |-> 0, retryIn |-> 0]
    /\ connectionFailed' = FALSE
    /\ last' = IF phase = "db" THEN Noted("connectRedis", redisClient) ELSE last
    /\ phase' = IF phase = "db" THEN "redis" ELSE phase
    /\ step' = "ready"
    /\ UNCHANGED <<heap, requestMap, now, pipe, hist, store, inflight, emitted,
                   resp, lastSweep, mirror, redisClient, mongo>>

\* the connection is lost: 'error' is emitted and the client reconnects
ConnectionLost ==
    /\ socket.status = "ready"
    /\ socket' = [status |-> "connecting", retries |-> 0, retryIn |-> 0]
    /\ connectionFailed' = TRUE
    /\ step' = "error"
    /\ UNCHANGED <<queueVars, hist, store, inflight, emitted, resp, lastSweep,
                   mirror, redisClient, phase, mongo>>

SpecRetry ==
    InitStart /\ [][ConnectDB \/ ConnectRedisCall \/ AttemptFails \/ RetryTimer \/
                    AttemptSucceeds \/ ConnectionLost \/ StartListening \/
                    ServerSubmit \/ ServerDequeueBegin \/ ServerDequeueEnd \/
                    (socket.status = "ready" /\ Reply) \/ ReplyError]_vars

\* ------------------------------- the mirror written and read back in full
\* reliefRequest.toObject(): the entry fields and what else the document
\* carries (of which name, status, description, contactPhone, requestedBy
\* are kept here)
Document(id, v, u, c, description, contactPhone) ==
    Entry(id, v, u, c, 0) @@
    [name |-> "Asha", status |-> "PENDING", description |-> description,
     contactPhone |-> contactPhone, requestedBy |-> "user1"]

\* the object the JSON text describes: JSON.stringify of the object literal
\* with the ten properties syncToRedis names,
\* followed by JSON.parse. The id and the date come back as the strings that
\* toString and toISOString give, from which the same id and the same
\* millisecond are read again, so they are kept as they are here.
Stringify(req) ==
    [f \in {"kind", "_id", "name", "location", "aidType", "vulnerabilityCategory",
            "vulnerabilityScore", "medicalUrgencyScore", "priorityScore",
            "status", "createdAt"} \cap DOMAIN req |-> req[f]]

\* what zRange(key, 0, -1, {REV: true}) can return: the members, highest
\* score first
ZRangeRev(members) ==
    {q \in [1..Cardinality(members) -> members] :
        /\ \A i, j \in DOMAIN q : i # j => q[i] # q[j]
        /\ \A i, j \in DOMAIN q : i < j => q[i].score >= q[j].score}

\* documents 1..n inserted one by one into a new queue
RECURSIVE insertAll(_, _, _)
insertAll(s, docs, t) ==
    IF docs = <<>> THEN s
    ELSE LET o == insert(s.heap, s.requestMap, Head(docs), t)
         IN insertAll(Obj(o.heap, o.requestMap), Tail(docs), t)

MirrorInputs ==
    UNION {{q \in [1..n -> {Document(id, v, u, 0, d, ph) :
                              id \in 1..n, v \in VulnerabilityInputs,
                              u \in UrgencyInputs, d \in {"", "insulin"},
                              ph \in {"", "555"}}] :
              \A i \in 1..n : q[i]._id = i} : n \in 1..MaxMirrorLen}

InitMirror ==
    /\ \E docs \in MirrorInputs :
         /\ hist = [inserted |-> docs, extracted |-> <<>>]
         /\ heap = insertAll(Obj(<<>>, [x \in {} |-> 0]), docs, 0).heap
         /\ requestMap = insertAll(Obj(<<>>, [x \in {} |-> 0]), docs, 0).requestMap
    /\ now = 0
    /\ last = [op |-> "insert", id |-> Len(heap), ret |-> Null, threw |-> FALSE,
               synced |-> TRUE]
    /\ store = [x \in {} |-> 0]
    /\ inflight = {}
    /\ emitted = <<>>
    /\ resp = [route |-> "none", status |-> 0]
    /\ lastSweep = 0
    /\ step = "start"
    /\ pipe = <<>>
    /\ mirror = {}
    /\ redisClient = Client
    /\ connectionFailed = FALSE
    /\ phase = "listening"
    /\ mongo = "up"
    /\ socket = NoSocket

\* syncToRedis from its first to its last command, no other sync between
SyncToRedis ==
    /\ last.op = "insert"
    /\ getRedisClient(redisClient, connectionFailed) # Null
    /\ mirror' = {[score |-> heap[i].priorityScore, value |-> Stringify(heap[i])] :
                    i \in 1..Len(heap)}
    /\ last' = [op |-> "syncToRedis", id |-> 0, ret |-> Undefined, threw |-> FALSE,
                synced |-> FALSE]
    /\ step' = "SyncToRedis"
    /\ UNCHANGED <<heap, requestMap, now, pipe, hist, store, inflight, emitted,
                   resp, lastSweep, redisClient, connectionFailed, phase, mongo,
                   socket>>

\* loadFromRedis on a new queue (the process after a restart)
LoadFromRedis ==
    /\ last.op = "syncToRedis"
    /\ getRedisClient(redisClient, connectionFailed) # Null
    /\ \E items \in ZRangeRev(mirror) :
         LET requests == [i \in 1..Len(items) |-> items[i].value]
             o == loadFromArray([x \in {} |-> 0], requests, now)
         IN /\ heap' = o.heap
            /\ requestMap' = o.requestMap
            /\ last' = [op |-> "loadFromRedis", id |-> 0,
                        ret |-> [kind |-> "boolean", value |-> TRUE],
                        threw |-> FALSE, synced |-> FALSE]
    /\ step' = "LoadFromRedis"
    /\ UNCHANGED <<now, pipe, hist, store, inflight, emitted, resp, lastSweep,
                   mirror, redisClient, connectionFailed, phase, mongo,
                   socket>>

SpecMirror == InitMirror /\ [][SyncToRedis \/ LoadFromRedis]_vars

\* --------------------- the methods that only read, on entries with payload
ReadsInsert ==
    /\ Len(heap) < MaxReadLen
    /\ Ids \ HeapIds(heap) # {}
    /\ \E v \in VulnerabilityInputs, u \in UrgencyInputs, d \in {"", "insulin"} :
         Call(insert(heap, requestMap,
                     Document(FreshId(Ids, heap), v, u, now, d, "555"), now),
              "insert", FreshId(Ids, heap))
    /\ UNCHANGED <<envVars, hist, routeVars>>

Size ==
    /\ last' = [op |-> "size", id |-> 0,
                ret |-> [kind |-> "number", value |-> size(heap)],
                threw |-> FALSE, synced |-> FALSE]
    /\ UNCHANGED <<heap, requestMap, now, pipe, envVars, hist, routeVars>>

IsEmpty ==
    /\ last' = [op |-> "isEmpty", id |-> 0,
                ret |-> [kind |-> "boolean", value |-> isEmpty(heap)],
                threw |-> FALSE, synced |-> FALSE]
    /\ UNCHANGED <<heap, requestMap, now, pipe, envVars, hist, routeVars>>

SpecReads ==
    Init /\ [][ReadsInsert \/ ExtractMax \/ RemoveById \/ RecalculateAllPriorities \/
               GetAll \/ Peek \/ Size \/ IsEmpty \/ Tick]_vars

\* ------------------------- services/priorityQueue.js: the class MaxHeap
\* (its array is `heap'; it keeps no index and sends nothing to Redis)
\* a JS number, and a < b on JS values: false unless both are numbers
Num(n) == [kind |-> "number", value |-> n]

JsLess(a, b) == a.kind = "number" /\ b.kind = "number" /\ a.value < b.value

\* insert: push, then this.bubbleup(), which is not a function of the class
\* (the method is called bubbleUp): a TypeError
MaxHeapInsert ==
    /\ Len(heap) < MaxLen
    /\ \E v \in VulnerabilityInputs, u \in UrgencyInputs :
         LET request == Entry(Len(heap) + 1, v, u, now, calculatePriority(v, u, now, now))
         IN /\ heap' = Append(heap, request)
            /\ last' = [op |-> "insert", id |-> request._id, ret |-> Undefined,
                        threw |-> TRUE, synced |-> FALSE]
    /\ UNCHANGED <<requestMap, now, pipe, envVars, hist, routeVars>>

\* extractMax: this.heap.lenght reads a property the array does not have, so
\* neither length test holds; heap[0] = heap.pop() follows, and sinkDown(0)
\* reaches the undeclared name `lenght' in its first round: a ReferenceError
MaxHeapExtractMax ==
    /\ LET lenght == Undefined
           max == Get(heap, 0)
           popped == IF Len(heap) = 0 THEN Undefined ELSE heap[Len(heap)]
       IN IF lenght = Num(0)
          THEN heap' = heap /\ last' = Noted("extractMax", Null)
          ELSE IF lenght = Num(1)
          THEN heap' = Pop(heap) /\ last' = Noted("extractMax", popped)
          ELSE /\ heap' = Put(Pop(heap), 0, popped)
               /\ last' = [op |-> "extractMax", id |-> 0, ret |-> Undefined,
                           threw |-> TRUE, synced |-> FALSE]
    /\ UNCHANGED <<requestMap, now, pipe, envVars, hist, routeVars>>

MaxHeapPeek ==
    /\ LET lenght == Undefined
       IN last' = Noted("peek", IF JsLess(Num(0), lenght) THEN Get(heap, 0) ELSE Null)
    /\ UNCHANGED <<heap, requestMap, now, pipe, envVars, hist, routeVars>>

MaxHeapSize ==
    /\ LET lenght == Undefined
       IN last' = Noted("size", lenght)
    /\ UNCHANGED <<heap, requestMap, now, pipe, envVars, hist, routeVars>>

SpecMaxHeap ==
    Init /\ [][MaxHeapInsert \/ MaxHeapExtractMax \/ MaxHeapPeek \/ MaxHeapSize]_vars

\* --------------------------------------- utils/priorityCalculator.js alone
Args(v, u, createdAt) ==
    [kind |-> "args", vulnerabilityScore |-> v, medicalUrgencyScore |-> u,
     createdAt |-> createdAt]

ArgsInputs(t) ==
    {Args(v, u, t - w) : v \in ScoreInputs, u \in ScoreInputs, w \in WaitInputs}

InitPriority ==
    /\ heap = <<>>
    /\ requestMap = [x \in {} |-> 0]
    /\ now \in ClockInputs
    /\ last \in {Noted("args", a) : a \in ArgsInputs(now)}
    /\ hist = [inserted |-> <<>>, extracted |-> <<>>]
    /\ store = [x \in {} |-> 0]
    /\ inflight = {}
    /\ emitted = <<>>
    /\ resp = [route |-> "none", status |-> 0]
    /\ lastSweep = 0
    /\ step = "start"
    /\ pipe = <<>>
    /\ mirror = {}
    /\ redisClient = Null
    /\ connectionFailed = FALSE
    /\ phase = "listening"
    /\ mongo = "up"
    /\ socket = NoSocket

\* the caller reads the fields of a request and calls calculatePriority
CalculatePriority ==
    /\ last.op = "args"
    /\ last' = Noted("calculatePriority",
                     [last.ret EXCEPT !.kind = "number"] @@
                     [value |-> calculatePriority(last.ret.vulnerabilityScore,
                                                  last.ret.medicalUrgencyScore,
                                                  last.ret.createdAt, now)])
    /\ UNCHANGED <<heap, requestMap, now, pipe, envVars, hist, routeVars>>

\* the same request scored again later, or another request
ChooseArgs ==
    /\ last.op = "calculatePriority"
    /\ now' \in ClockInputs
    /\ now' >= now
    /\ last' \in {Noted("args", a) : a \in ArgsInputs(now) \cup ArgsInputs(now')}
    /\ UNCHANGED <<heap, requestMap, pipe, envVars, hist, routeVars>>

SpecPriority == InitPriority /\ [][CalculatePriority \/ ChooseArgs]_vars

\* ------------------------------------------------------------------ claims
\* the step is a call of the method `op' (a clock tick leaves `last' alone)
StepIs(op) == last'.op = op /\ now' = now

AllEntries(h) == \A i \in 1..Len(h) : IsEntry(h[i])

\* C1: after any sequence of insert, extractMax, removeById and
\* updatePriority calls (distinct ids) requestMap is a bijection with the
\* array: its keys are exactly the ids in the array and the id of heap[i]
\* maps to i.
C1_IndexBijective ==
    /\ DOMAIN requestMap = HeapIds(heap)
    /\ \A i \in 1..Len(heap) :
         /\ IsEntry(heap[i])
         /\ heap[i]._id \in DOMAIN requestMap
         /\ requestMap[heap[i]._id] = i - 1

\* C2: in every state reachable by the public methods the array is in
\* max-heap order on stored scores: an entry's stored score is at most the
\* stored score of the entry at its parent position (slots that hold no entry
\* have no score and are not compared).
C2_HeapOrder ==
    \A i \in 1..(Len(heap) - 1) :
        (IsEntry(Get(heap, i)) /\ IsEntry(Get(heap, getParentIndex(i)))) =>
          Get(heap, getParentIndex(i)).priorityScore >= Get(heap, i).priorityScore

\* the priority of an entry by the priority function at the current time
CurrentPriority(e) ==
    calculatePriority(e.vulnerabilityScore, e.medicalUrgencyScore, e.createdAt, now)

MaxStored(e, h) ==
    /\ IsEntry(e)
    /\ \A i \in 1..Len(h) : IsEntry(h[i]) /\ e.priorityScore >= h[i].priorityScore

Range(q) == {q[i] : i \in 1..Len(q)}

\* the handler step `x' is taken (a clock tick leaves `step' alone)
RouteStepIs(x) == step' = x /\ now' = now

\* C3: after inserts only, peek returns an entry whose stored score is the
\* maximum over the array, and leaves the array and the index as they were.
C3_PeekIsMax ==
    [][StepIs("peek") =>
         /\ heap' = heap
         /\ requestMap' = requestMap
         /\ (Len(heap) > 0 => MaxStored(last'.ret, heap) /\ last'.ret \in Range(heap))]_vars

C3_Witness ==
    /\ last.op = "peek"
    /\ Len(heap) >= 3
    /\ IsEntry(last.ret)
    /\ last.ret._id = 3
    /\ \E i \in 1..Len(heap) : heap[i].priorityScore < last.ret.priorityScore

\* C4: n inserts on an empty queue followed by n extractMax calls return the
\* n inserted entries, each once, in non-increasing order of stored score,
\* and leave the queue empty.
C4_DrainSorted ==
    LET ins == hist.inserted
        ext == hist.extracted
    IN /\ \A i \in 1..Len(ext) : IsEntry(ext[i]) /\ ext[i] \in Range(ins)
       /\ \A i, j \in 1..Len(ext) :
            i < j => /\ ext[i].priorityScore >= ext[j].priorityScore
                     /\ ext[i]._id # ext[j]._id
       /\ Len(ext) = Len(ins) => (heap = <<>> /\ Range(ext) = Range(ins))

C4_Witness ==
    /\ Len(hist.inserted) >= 4
    /\ Len(hist.extracted) = Len(hist.inserted)
    /\ hist.extracted # hist.inserted
    /\ hist.extracted[1].priorityScore > hist.extracted[4].priorityScore
    /\ hist.extracted[3]._id = 4

\* C5: extractMax on an array of n >= 1 entries (no slot without an entry)
\* returns an entry of the array, leaves the n-1 others, the returned stored
\* score is at least every remaining one, and the new root is a maximum of
\* the remainder.
C5_ExtractMaxRemovesMax ==
    [][(StepIs("extractMax") /\ Len(heap) >= 1 /\ AllEntries(heap)) =>
         /\ ~last'.threw
         /\ last'.ret \in Range(heap)
         /\ Len(heap') = Len(heap) - 1
         /\ Range(heap') = Range(heap) \ {last'.ret}
         /\ MaxStored(last'.ret, heap')
         /\ (Len(heap') > 0 => MaxStored(peek(heap'), heap'))]_vars

\* C6: the entry the dequeue route takes from a non-empty queue has the
\* highest priority of all entries in the heap when each priority is
\* evaluated by the priority function at the time of the dequeue.
C6_DispatchHighestNow ==
    [][(RouteStepIs("DequeueBegin") /\ ~isEmpty(heap) /\ IsEntry(last'.ret)) =>
         \A i \in 1..Len(heap) :
            IsEntry(heap[i]) => CurrentPriority(heap[i]) <= CurrentPriority(last'.ret)]_vars

\* C7: removeById of an id present in the array returns the entry with that
\* id, shrinks the array by one, keeps every other entry, leaves only entries
\* in the array, and every remaining entry is found by the index at its
\* actual position.
C7_RemovePresent ==
    [][(StepIs("removeById") /\ last'.id \in HeapIds(heap)) =>
         /\ ~last'.threw
         /\ IsEntry(last'.ret)
         /\ last'.ret._id = last'.id
         /\ Len(heap') = Len(heap) - 1
         /\ AllEntries(heap')
         /\ HeapIds(heap') = HeapIds(heap) \ {last'.id}
         /\ \A i \in 1..Len(heap') :
              /\ heap'[i]._id \in DOMAIN requestMap'
              /\ requestMap'[heap'[i]._id] = i - 1]_vars

\* C8: removeById of an id that no entry of the array has returns null and
\* leaves the array and the index as they were, without starting a sync.
C8_RemoveAbsent ==
    [][(StepIs("removeById") /\ last'.id \notin HeapIds(heap)) =>
         /\ ~last'.threw
         /\ last'.ret = Null
         /\ heap' = heap
         /\ requestMap' = requestMap
         /\ ~last'.synced]_vars

\* C9: on an empty queue extractMax and peek return null and change nothing,
\* and the dequeue route answers 404 without a store call, a change of the
\* store or the queue, or an event.
C9_EmptyQueue ==
    [][isEmpty(heap) =>
         /\ RouteStepIs("extractMax") =>
              /\ last'.op = "extractMax" /\ last'.ret = Null /\ ~last'.threw
              /\ heap' = heap /\ requestMap' = requestMap /\ size(heap') = 0
         /\ RouteStepIs("peek") =>
              /\ last'.op = "peek" /\ last'.ret = Null
              /\ heap' = heap /\ requestMap' = requestMap /\ size(heap') = 0
         /\ RouteStepIs("DequeueBegin") =>
              /\ resp' = Respond("dequeue", 404)
              /\ store' = store /\ inflight' = inflight
              /\ emitted' = <<>>
              /\ heap' = heap /\ requestMap' = requestMap]_vars

C9_Witness ==
    /\ step = "DequeueBegin"
    /\ resp = Respond("dequeue", 404)
    /\ isEmpty(heap)
    /\ last.op = "peek" /\ last.ret = Null
    /\ StoreIds # {}
    /\ inflight = {}

\* C10: extractMax, removeById and updatePriority never throw and return
\* either an entry or null.
C10_EntryOrNull ==
    last.op \in {"extractMax", "removeById", "updatePriority"} =>
        /\ ~last.threw
        /\ (last.ret = Null \/ IsEntry(last.ret))

\* C11: in every state reachable by queue operations, insert of an entry
\* with valid scores and an id that neither the array nor the index holds
\* does not throw, returns the entry with its newly computed score, grows
\* the array by exactly one and leaves the entry findable by id.
C11_InsertSucceeds ==
    [][(StepIs("insert") /\ last'.id \notin HeapIds(heap)
                         /\ last'.id \notin DOMAIN requestMap) =>
         /\ ~last'.threw
         /\ IsEntry(last'.ret)
         /\ last'.ret._id = last'.id
         /\ last'.ret.priorityScore =
              calculatePriority(last'.ret.vulnerabilityScore,
                                last'.ret.medicalUrgencyScore,
                                last'.ret.createdAt, now)
         /\ size(heap') = size(heap) + 1
         /\ last'.id \in DOMAIN requestMap'
         /\ Get(heap', requestMap'[last'.id]) = last'.ret]_vars

\* C12: getAll returns a sequence with one element per slot of the array
\* (as many as size()), holding exactly the entries of the array after the
\* call, each with the score computed at the time of the call, in
\* non-increasing order of that score.
C12_GetAllSorted ==
    [][StepIs("getAll") =>
         /\ ~last'.threw
         /\ last'.ret.kind = "list"
         /\ LET items == last'.ret.items
            IN /\ Len(items) = size(heap)
               /\ \A i \in 1..Len(items) :
                    /\ IsEntry(items[i])
                    /\ items[i].priorityScore =
                         calculatePriority(items[i].vulnerabilityScore,
                                           items[i].medicalUrgencyScore,
                                           items[i].createdAt, now)
               /\ {items[i]._id : i \in 1..Len(items)} = HeapIds(heap)
               /\ Cardinality(HeapIds(heap)) = Len(items)
               /\ Range(items) = Range(heap')
               /\ \A i \in 1..(Len(items) - 1) :
                    items[i].priorityScore >= items[i + 1].priorityScore]_vars

\* every stored score is the priority at time t: the array was rescored at t
ScoresCurrent(h, t) ==
    \A i \in 1..Len(h) :
        IsEntry(h[i]) =>
            h[i].priorityScore =
                calculatePriority(h[i].vulnerabilityScore,
                                  h[i].medicalUrgencyScore, h[i].createdAt, t)

\* C13: a recalculateAllPriorities call that follows another one with the
\* clock unchanged in between (the stored scores are those of the current
\* time) leaves the array, its order and the index exactly as the first call
\* left them.
C13_RecalculateIdempotent ==
    [][(StepIs("recalculateAllPriorities")
          /\ last.op = "recalculateAllPriorities"
          /\ ScoresCurrent(heap, now)) =>
         /\ heap' = heap
         /\ requestMap' = requestMap]_vars

C13_Witness ==
    /\ last.op = "recalculateAllPriorities"
    /\ ~last.threw
    /\ now > 0
    /\ Len(heap) = 3
    /\ ScoresCurrent(heap, now)
    /\ heap[1].priorityScore = heap[3].priorityScore
    /\ heap[1].priorityScore > heap[2].priorityScore
    /\ heap[1].createdAt < now

Abs(x) == IF x < 0 THEN -x ELSE x

\* C14: the value of calculatePriority(v, u, createdAt) at time now is
\* 5v + 10u + 0.1 * max(0, minutes from createdAt to now) rounded to two
\* decimals (within half a hundredth of it), it is exactly 5v + 10u when
\* createdAt is later than now, and v=4,u=5 gives 70 at zero wait and 71
\* after ten minutes, v=1,u=2 gives 25.
C14_PriorityFormula ==
    last.op = "calculatePriority" =>
        LET v == last.ret.vulnerabilityScore
            u == last.ret.medicalUrgencyScore
            c == last.ret.createdAt
            r == last.ret.value
            wait == IF now > c THEN now - c ELSE 0
            exact == (5 * v + 10 * u) * 100 * 6000 + wait
        IN /\ 2 * Abs(6000 * r - exact) <= 6000
           /\ (c > now => r = (5 * v + 10 * u) * 100)
           /\ (v = 4 /\ u = 5 /\ c = now => r = 7000)
           /\ (v = 4 /\ u = 5 /\ now - c = 600000 => r = 7100)
           /\ (v = 1 /\ u = 2 /\ c = now => r = 2500)

C14_Witness ==
    /\ last.op = "calculatePriority"
    /\ last.ret.vulnerabilityScore = 4
    /\ last.ret.medicalUrgencyScore = 5
    /\ now - last.ret.createdAt = 600000
    /\ last.ret.value = 7100
    /\ now = 1200000

\* C15: whenever no dequeue is in flight, every entry in the array is a
\* request whose status in the store is PENDING (so a dequeue can never
\* hand out a request that is already IN_TRANSIT or DELIVERED).
C15_HeapOnlyPending ==
    inflight = {} =>
        \A i \in 1..Len(heap) :
            IsEntry(heap[i]) =>
                /\ heap[i]._id \in StoreIds
                /\ store[heap[i]._id].status = "PENDING"

\* C17: with the mirror reachable (a client, no connection failure),
\* whenever no sync is in flight after a mutation that started one, the
\* mirror holds exactly the entries of the array: a member for each and no
\* member for an entry (or an older scored version of one) that the array
\* no longer holds.
C17_MirrorIsHeap ==
    (/\ getRedisClient(redisClient, connectionFailed) = Client
     /\ pipe = <<>>
     /\ last.synced) =>
        mirror = {heap[i] : i \in {j \in 1..Len(heap) : IsEntry(heap[j])}}

\* what a call left and returned is what the method o computes from the
\* array, the index and the clock alone
SameAs(o) ==
    /\ heap' = o.heap
    /\ requestMap' = o.requestMap
    /\ last'.ret = o.ret
    /\ last'.threw = o.threw

\* C16: what insert, extractMax, removeById and updatePriority return and
\* leave in the array and the index does not depend on the mirror (client
\* connected, absent, or failing): it is what the method computes from the
\* array and the index; an answer or a failure of a mirror command changes
\* neither the array nor the index nor what was returned, and never ends
\* the process.
C16_MirrorNeverMatters ==
    [][/\ RouteStepIs("insert") =>
            \E v \in VulnerabilityInputs, u \in UrgencyInputs :
                SameAs(insert(heap, requestMap, Entry(last'.id, v, u, now, 0), now))
       /\ RouteStepIs("extractMax") => SameAs(extractMax(heap, requestMap))
       /\ RouteStepIs("removeById") =>
            SameAs(removeById(heap, requestMap, last'.id))
       /\ RouteStepIs("updatePriority") =>
            \E ch \in ChangeInputs :
                SameAs(updatePriority(heap, requestMap, last'.id, ch, now))
       /\ step' \in {"Reply", "ReplyError", "RedisError", "RedisReady"} =>
            /\ heap' = heap
            /\ requestMap' = requestMap
            /\ last' = last
            /\ phase' = phase]_vars

C16_Witness ==
    /\ step = "ReplyError"
    /\ phase = "listening"
    /\ last.op = "insert"
    /\ last.synced
    /\ Len(heap) = 2
    /\ mirror = {}
    /\ IsEntry(last.ret)

\* C18: a route or timer step that works on the heap completes without any
\* mirror command being answered: the commands that were unanswered before
\* the step are still unanswered after it, in the same order, at most the
\* step's own first command is added behind them (it is when the step
\* changed the heap and a client is there), and the mirror is as it was; so
\* the step never waits for the mirror, however late it answers.
HeapSteps == {"Submit", "DequeueBegin", "DequeueEnd", "GetQueue", "Sweep"}

C18_ReturnsBeforeMirror ==
    [][(step' \in HeapSteps /\ now' = now) =>
          /\ Len(pipe') \in {Len(pipe), Len(pipe) + 1}
          /\ SubSeq(pipe', 1, Len(pipe)) = pipe
          /\ mirror' = mirror
          /\ ((step' = "Submit" \/ (step' = "DequeueBegin" /\ ~isEmpty(heap)))
                /\ last'.synced
                /\ getRedisClient(redisClient, connectionFailed) # Null)
               => pipe' = Append(pipe, Del)]_vars

\* a submission is accepted and answered while a command of an earlier
\* sync is still unanswered
C18_Witness ==
    /\ step = "Submit"
    /\ resp = [route |-> "submit", status |-> 201]
    /\ last.synced
    /\ Len(pipe) = 2
    /\ pipe[2] = Del

\* C20 as stated: an unavailable durable store at process start never ends
\* the process.
C20_StoreDownNotFatal == mongo = "down" => phase # "exited"

\* C20 (amended): if the durable store is unavailable at process start,
\* startup is fatal: the process ends before anything is loaded and before
\* the server listens, so the heap and the index stay empty, no queue
\* operation is ever served and no mirror command is ever sent.
C20_StoreDownIsFatal ==
    mongo = "down" =>
        /\ phase \in {"start", "exited"}
        /\ heap = <<>>
        /\ requestMap = [x \in {} |-> 0]
        /\ last.op = "new"
        /\ resp.route = "none"
        /\ pipe = <<>>

C20_Witness == mongo = "down" /\ phase = "exited" /\ step = "ConnectDB"

\* C21: after loadFromArray(entries) on a queue in any state the array
\* holds exactly the given entries (ids 1..n here) in max-heap order, and the
\* index holds exactly their ids, each at its position: no id of the earlier
\* contents is left in it.
C21_LoadReplaces ==
    [][StepIs("loadFromArray") =>
         /\ ~last'.threw
         /\ AllEntries(heap')
         /\ HeapIds(heap') = 1..Len(heap')
         /\ \A i \in 1..(Len(heap') - 1) :
              Get(heap', getParentIndex(i)).priorityScore
                  >= Get(heap', i).priorityScore
         /\ DOMAIN requestMap' = HeapIds(heap')
         /\ \A i \in 1..Len(heap') : requestMap'[heap'[i]._id] = i - 1]_vars

\* C22: a submission answered 201 has put the new entry into the array and
\* emitted exactly one newRequest event, which carries the new request and
\* the size of the array after the insert, and after it a highPriorityAlert
\* if and only if the computed score is at least 50; a submission answered
\* 400 for missing or invalid fields has changed neither the array, the
\* index nor the store and has emitted nothing.
EventsNamed(name, events) ==
    {i \in 1..Len(events) : events[i].event = name}

C22_SubmitEvents ==
    [][RouteStepIs("PostRequest") =>
         /\ resp'.status = 201 =>
              LET id == last'.id
              IN /\ IsEntry(last'.ret) /\ last'.ret._id = id
                 /\ last'.ret \in Range(heap')
                 /\ id \notin HeapIds(heap)
                 /\ Len(heap') = Len(heap) + 1
                 /\ id \in DOMAIN store' /\ id \notin DOMAIN store
                 /\ Cardinality(EventsNamed("newRequest", emitted')) = 1
                 /\ emitted'[1] = Event("newRequest", id, Len(heap'))
                 /\ Len(emitted') <= 2
                 /\ (Len(emitted') = 2 <=>
                       CurrentPriority(last'.ret) >= 5000)
                 /\ (Len(emitted') = 2 =>
                       emitted'[2] = Event("highPriorityAlert", id, 0))
         /\ resp'.status = 400 =>
              /\ heap' = heap
              /\ requestMap' = requestMap
              /\ store' = store
              /\ emitted' = <<>>]_vars

\* an accepted submission scoring exactly 50 (elderly, regular medicine) has
\* raised the alert, with another entry already in the array
C22_Witness ==
    /\ step = "PostRequest"
    /\ resp = Respond("submit", 201)
    /\ last.ret.priorityScore = 5000
    /\ Len(emitted) = 2
    /\ emitted[1].queueSize = 2

\* C23: a status update that puts a request back into the array (status set
\* to PENDING) does what a submission does: the entry is inserted with the
\* score of the current time, a sync is started, one newRequest event with
\* the request and the size of the array is emitted, and a highPriorityAlert
\* when the score is at least 50.
C23_RequeueAsEnqueue ==
    [][(RouteStepIs("UpdateStatus") /\ Len(heap') = Len(heap) + 1) =>
         /\ IsEntry(last'.ret)
         /\ last'.ret \in Range(heap')
         /\ last'.ret.priorityScore = CurrentPriority(last'.ret)
         /\ last'.synced
         /\ Cardinality(EventsNamed("newRequest", emitted')) = 1
         /\ \A i \in EventsNamed("newRequest", emitted') :
              emitted'[i].queueSize = Len(heap')
         /\ (EventsNamed("highPriorityAlert", emitted') # {} <=>
               last'.ret.priorityScore >= 5000)]_vars

\* C24: a successful dequeue goes in this order: the entry is taken from
\* the array; its status in the store becomes IN_TRANSIT; only then the sync
\* of this dequeue is started; then requestDequeued and after it
\* queueUpdated are emitted. So the step that takes the entry and waits for
\* the store sends no mirror command, and the step after the store update
\* sends the DEL of the sync and emits the two events in that order.
C24_DequeueOrder ==
    [][/\ (RouteStepIs("DequeueBegin") /\ inflight' # inflight) =>
            /\ store' = store
            /\ emitted' = <<>>
            /\ pipe' = pipe
       /\ (RouteStepIs("DequeueEnd") /\ resp' = Respond("dequeue", 200)) =>
            /\ \E id \in StoreIds :
                 store[id].status = "PENDING" /\ store'[id].status = "IN_TRANSIT"
            /\ getRedisClient(redisClient, connectionFailed) # Null =>
                 pipe' = Append(pipe, Del)
            /\ Len(emitted') = 2
            /\ emitted'[1].event = "requestDequeued"
            /\ emitted'[2].event = "queueUpdated"]_vars

C26_UpdatePriority ==
    [][StepIs("updatePriority") =>
         IF last'.id \in HeapIds(heap)
         THEN /\ ~last'.threw
              /\ IsEntry(last'.ret)
              /\ last'.ret._id = last'.id
              /\ last'.ret.priorityScore = CurrentPriority(last'.ret)
              /\ last'.ret \in Range(heap')
              /\ AllEntries(heap')
              /\ HeapIds(heap') = HeapIds(heap) /\ Len(heap') = Len(heap)
              /\ \A i \in 1..(Len(heap') - 1) :
                   Get(heap', getParentIndex(i)).priorityScore
                       >= Get(heap', i).priorityScore
              /\ \A i \in 1..Len(heap') : requestMap'[heap'[i]._id] = i - 1
         ELSE /\ last'.ret = Null
              /\ heap' = heap
              /\ requestMap' = requestMap]_vars

\* C27: every step that changes the array (an insert, an extraction, a
\* recalculation that changes a score or the order, the load at start)
\* starts a sync: with a client available it sends DEL.
C27_SyncAfterMutation ==
    [][(heap' # heap /\ getRedisClient(redisClient, connectionFailed) # Null) =>
         pipe' = Append(pipe, Del)]_vars

\* C28: a queue written to the mirror in full and read back into a new
\* queue holds the same ids, and each entry has the vulnerabilityScore,
\* medicalUrgencyScore and createdAt it had and every payload field it
\* carried (description, contactPhone, requestedBy).
HasField(e, f, d) == f \in DOMAIN e /\ e[f] = d[f]

C28_RoundTrip ==
    last.op = "loadFromRedis" =>
        /\ HeapIds(heap) = {hist.inserted[i]._id : i \in 1..Len(hist.inserted)}
        /\ Len(heap) = Len(hist.inserted)
        /\ \A i \in 1..Len(heap) :
             LET d == hist.inserted[heap[i]._id]
             IN \A f \in {"vulnerabilityScore", "medicalUrgencyScore",
                           "createdAt", "description", "contactPhone",
                           "requestedBy"} : HasField(heap[i], f, d)

\* C29: bubbleUp moves the new entry only past ancestors whose score is
\* strictly below its own; sinkDown moves an entry up only when its score is
\* strictly above the sinking entry's, and takes the right child only when
\* that child's score is strictly above the left child's. An entry is never
\* moved past one of equal score.
PositionOf(h, id) == CHOOSE i \in 1..Len(h) : h[i]._id = id

C29_InsertPath ==
    LET p == PositionOf(heap', last'.id)
        e == heap'[p]
    IN /\ Len(heap') = Len(heap) + 1
       /\ \A i \in 1..Len(heap) :
            PositionOf(heap', heap[i]._id) # i =>
                heap[i].priorityScore < e.priorityScore
       /\ p > 1 => heap'[p \div 2].priorityScore >= e.priorityScore

C29_SinkPath ==
    LET e == heap[Len(heap)]
    IN \A i \in 1..Len(heap') :
         (heap'[i] # heap[i] /\ heap'[i]._id # e._id) =>
             /\ heap'[i].priorityScore > e.priorityScore
             /\ \/ /\ heap'[i] = heap[2 * i]
                   /\ 2 * i + 1 <= Len(heap') =>
                          heap[2 * i + 1].priorityScore <= heap[2 * i].priorityScore
                \/ /\ 2 * i + 1 <= Len(heap')
                   /\ heap'[i] = heap[2 * i + 1]
                   /\ heap[2 * i + 1].priorityScore > heap[2 * i].priorityScore

C29_TieBreak ==
    [][/\ (StepIs("insert") /\ ~last'.threw) => C29_InsertPath
       /\ (StepIs("extractMax") /\ ~last'.threw /\ Len(heap) >= 2) => C29_SinkPath]_vars

C29_Witness ==
    /\ last.op = "extractMax"
    /\ Len(hist.inserted) = 4
    /\ Len(hist.extracted) = 1
    /\ hist.inserted[1].priorityScore = hist.inserted[2].priorityScore
    /\ hist.inserted[2].priorityScore = hist.inserted[3].priorityScore
    /\ hist.inserted[4].priorityScore < hist.inserted[1].priorityScore
    /\ last.ret._id = hist.inserted[1]._id
    /\ heap = <<hist.inserted[2], hist.inserted[4], hist.inserted[3]>>

\* C30: an entry that stays in the array with the same vulnerabilityScore,
\* medicalUrgencyScore and createdAt never has its stored score lowered by a
\* step (the sweep's recalculation, getAll and updatePriority included), and
\* at all times a stored score is at most what calculatePriority gives for
\* the entry at the current time.
SameInputs(a, b) ==
    /\ IsEntry(a) /\ IsEntry(b)
    /\ a._id = b._id
    /\ a.vulnerabilityScore = b.vulnerabilityScore
    /\ a.medicalUrgencyScore = b.medicalUrgencyScore
    /\ a.createdAt = b.createdAt

C30_ScoresAge ==
    /\ [](\A i \in 1..Len(heap) :
            IsEntry(heap[i]) => heap[i].priorityScore <= CurrentPriority(heap[i]))
    /\ [][\A i \in 1..Len(heap), j \in 1..Len(heap') :
            SameInputs(heap[i], heap'[j]) =>
                heap'[j].priorityScore >= heap[i].priorityScore]_vars

C30_Witness ==
    /\ last.op \in {"recalculateAllPriorities", "getAll", "updatePriority"}
    /\ \E i, j \in 1..Len(heap) :
         /\ IsEntry(heap[i]) /\ IsEntry(heap[j])
         /\ heap[i].createdAt < now
         /\ heap[i].priorityScore = CurrentPriority(heap[i])
         /\ heap[i].priorityScore >
                calculatePriority(heap[i].vulnerabilityScore,
                                  heap[i].medicalUrgencyScore,
                                  heap[i].createdAt, heap[i].createdAt)
         /\ heap[j].priorityScore < CurrentPriority(heap[j])

\* C31: recalculateAllPriorities and getAll leave the array with the same
\* slots up to their priorityScore and their place (same length, same ids,
\* same vulnerabilityScore, medicalUrgencyScore, createdAt and payload), and
\* the index gives every entry its place after the call (a call that throws
\* moves nothing and leaves the index as it was); peek, size and isEmpty leave the array and the
\* index exactly as they were.
Fixed(e) == IF IsEntry(e) THEN [e EXCEPT !.priorityScore = 0] ELSE e

C31_SameMembers ==
    /\ Len(heap') = Len(heap)
    /\ \A i \in 1..Len(heap) : \E j \in 1..Len(heap') : Fixed(heap'[j]) = Fixed(heap[i])
    /\ \A j \in 1..Len(heap') : \E i \in 1..Len(heap) : Fixed(heap'[j]) = Fixed(heap[i])

C31_IndexFollows ==
    IF last'.threw
    THEN /\ requestMap' = requestMap
         /\ \A j \in 1..Len(heap') : Fixed(heap'[j]) = Fixed(heap[j])
    ELSE /\ DOMAIN requestMap' = DOMAIN requestMap \cup HeapIds(heap')
         /\ \A j \in 1..Len(heap') :
              IsEntry(heap'[j]) => requestMap'[heap'[j]._id] = j - 1
         /\ \A id \in DOMAIN requestMap \ HeapIds(heap') :
              requestMap'[id] = requestMap[id]

C31_ReadsFrame ==
    [][/\ (StepIs("recalculateAllPriorities") \/ StepIs("getAll")) =>
             C31_SameMembers /\ C31_IndexFollows
       /\ (StepIs("peek") \/ StepIs("size") \/ StepIs("isEmpty")) =>
             heap' = heap /\ requestMap' = requestMap]_vars

C31_Witness ==
    /\ last.op = "getAll"
    /\ ~last.threw
    /\ Len(heap) = 3
    /\ heap[1].createdAt < now
    /\ heap[1].description = "insulin"
    /\ heap[1].priorityScore > heap[2].priorityScore
    /\ heap[2].priorityScore = heap[3].priorityScore
    /\ heap[2].createdAt = now
    /\ requestMap[heap[1]._id] = 0

\* C32: asked after a failed attempt with retries <= 2, the client waits
\* min(retries * 500, 2000) ms and tries again; asked with retries > 2 it
\* closes for good with the failed mark set. While the mark is set
\* getRedisClient gives null, a call that changes the array sends no command
\* and leaves the mirror alone, and connectRedis returns null and creates no
\* client. 'ready' clears the mark.
C32_RetryBounded ==
    [][/\ step' = "reconnectStrategy" =>
            IF socket.retries <= 2
            THEN /\ socket'.status = "waiting"
                 /\ socket'.retryIn = (IF socket.retries * 500 < 2000
                                       THEN socket.retries * 500 ELSE 2000)
            ELSE socket'.status = "closed" /\ connectionFailed'
       /\ step' = "retry" =>
            socket'.status = "connecting" /\ socket'.retries = socket.retries + 1
       /\ socket.status = "closed" => socket' = socket
       /\ connectionFailed =>
            /\ getRedisClient(redisClient, connectionFailed) = Null
            /\ heap' # heap => pipe' = pipe /\ mirror' = mirror
            /\ step' = "connectRedis" =>
                   /\ last'.op = "connectRedis" /\ last'.ret = Null
                   /\ redisClient' = redisClient /\ socket' = socket
       /\ step' = "ready" => ~connectionFailed']_vars

C32_Witness ==
    /\ socket.status = "closed"
    /\ socket.retries = 3
    /\ connectionFailed
    /\ redisClient = Client
    /\ step = "Submit"
    /\ Len(heap) = 2
    /\ pipe = <<>>
    /\ mirror # {}

\* C33: under submit, dequeue and update-status in any order no request id
\* is held by two slots of the array (so a status set to PENDING for a
\* request that is in the array adds no second slot for it).
C33_OneSlotPerId ==
    \A i, j \in 1..Len(heap) :
        (IsEntry(heap[i]) /\ IsEntry(heap[j]) /\ heap[i]._id = heap[j]._id) => i = j

\* C34: when no dequeue request is under way, every request whose stored
\* status is PENDING is in the array (every request is inserted when it is
\* stored; it may leave the array only by being dispatched, so a dequeue whose
\* status update failed or found no record has not lost it).
C34_PendingStaysQueued ==
    inflight = {} =>
        \A id \in StoreIds : store[id].status = "PENDING" => id \in HeapIds(heap)

\* C35: for the class MaxHeap, insert completes without error and leaves
\* the array one longer and in max-heap order; peek returns an entry of
\* maximal priorityScore (null on an empty array) and size the number of
\* elements; extractMax returns null on an empty array and leaves it empty,
\* and otherwise returns an entry of maximal score and leaves the array one
\* shorter.
C35_MaxHeapContract ==
    [][/\ last'.op = "insert" =>
            /\ ~last'.threw
            /\ Len(heap') = Len(heap) + 1
            /\ \A i \in 2..Len(heap') :
                 heap'[i \div 2].priorityScore >= heap'[i].priorityScore
       /\ last'.op = "peek" =>
            IF heap = <<>> THEN last'.ret = Null ELSE MaxStored(last'.ret, heap)
       /\ last'.op = "size" => last'.ret = Num(Len(heap))
       /\ last'.op = "extractMax" =>
            /\ ~last'.threw
            /\ IF heap = <<>> THEN last'.ret = Null /\ heap' = <<>>
               ELSE MaxStored(last'.ret, heap) /\ Len(heap') = Len(heap) - 1]_vars

TypeOK ==
    /\ now \in Nat
    /\ lastSweep <= now
    /\ Len(heap) <= MaxFill + 1
====
